---- MODULE Spec2Model ----
(***************************************************************************)
(* Model of the smooth-numbers library (src/src/lib.rs): the three entry   *)
(* points pratt, smooth and with_primes, each executed one loop iteration  *)
(* per step.                                                               *)
(*                                                                         *)
(* The library computes on u64.  The word is scaled down to `bits` bits    *)
(* (chosen per call from MinBits..MaxBits) so that the whole value range   *)
(* can be explored; every multiplication keeps that width.                 *)
(*                                                                         *)
(* The code multiplies with the plain `*` operator.  Whether an overflowing*)
(* product panics ("attempt to multiply with overflow") or wraps modulo    *)
(* 2^bits is decided by the build (rustc's overflow-checks setting, on in  *)
(* the test profile, off by default in the release profile; see the note   *)
(* at lib.rs:245).  `overflow_checks` is that setting, chosen per call.    *)
(***************************************************************************)
EXTENDS Integers, Sequences, FiniteSets, TLC

VARIABLES func, k, primes, n, bits, overflow_checks,
          pc, v, two, three, x, indices, iter, panic, overflowed

vars == <<func, k, primes, n, bits, overflow_checks,
          pc, v, two, three, x, indices, iter, panic, overflowed>>

\* ---------------------------------------------------------------- bounds
MaxN == 12
MaxK == 7
MaxGen == 5
MaxPrimes == 2
MinBits == 4
MaxBits == 5

\* ------------------------------------------------------------ arithmetic
RECURSIVE Pow2(_)
Pow2(e) == IF e = 0 THEN 1 ELSE 2 * Pow2(e - 1)

\* u64::MAX, at the scaled word width
MaxValue == Pow2(bits) - 1

\* `a * b` does not fit the word
Overflows(a, b) == a * b > MaxValue

\* the value `a * b` has when the build does not check overflow
WrappingMul(a, b) == (a * b) % (MaxValue + 1)

\* 0-based indexing of a Vec
At(s, idx) == s[idx + 1]

Last(s) == s[Len(s)]

Range(s) == {s[j] : j \in 1..Len(s)}

NoPanic == "none"
PanicOverflow == "attempt to multiply with overflow"
PanicIndex == "index out of bounds"
PanicExpect == "cannot find next index"

\* --------------------------------------------------------------- pratt
\* PrattIter with an Equal branch that advances `two` only
PrattIter_EqualAdvancesTwoOnly(vv, tw, th) ==
    IF tw >= Len(vv) \/ th >= Len(vv)
    THEN [status |-> PanicIndex, ovf |-> FALSE, v |-> vv, two |-> tw, three |-> th]
    ELSE
    LET ovf == Overflows(2, At(vv, tw)) \/ Overflows(3, At(vv, th))
        times_two == WrappingMul(2, At(vv, tw))
        times_three == WrappingMul(3, At(vv, th))
    IN  IF ovf /\ overflow_checks
        THEN [status |-> PanicOverflow, ovf |-> TRUE, v |-> vv, two |-> tw, three |-> th]
        ELSE IF times_two <= times_three
        THEN [status |-> NoPanic, ovf |-> ovf, v |-> Append(vv, times_two),
              two |-> tw + 1, three |-> th]
        ELSE [status |-> NoPanic, ovf |-> ovf, v |-> Append(vv, times_three),
              two |-> tw, three |-> th + 1]

\* one iteration of the loop of pratt (lib.rs:45-61)
PrattIter(vv, tw, th) ==
    IF tw >= Len(vv) \/ th >= Len(vv)
    THEN [status |-> PanicIndex, ovf |-> FALSE, v |-> vv, two |-> tw, three |-> th]
    ELSE
    LET ovf == Overflows(2, At(vv, tw)) \/ Overflows(3, At(vv, th))
        times_two == WrappingMul(2, At(vv, tw))
        times_three == WrappingMul(3, At(vv, th))
    IN  IF ovf /\ overflow_checks
        THEN [status |-> PanicOverflow, ovf |-> TRUE, v |-> vv, two |-> tw, three |-> th]
        ELSE IF times_two < times_three
        THEN [status |-> NoPanic, ovf |-> ovf, v |-> Append(vv, times_two),
              two |-> tw + 1, three |-> th]
        ELSE IF times_two = times_three
        THEN [status |-> NoPanic, ovf |-> ovf, v |-> Append(vv, times_two),
              two |-> tw + 1, three |-> th + 1]
        ELSE [status |-> NoPanic, ovf |-> ovf, v |-> Append(vv, times_three),
              two |-> tw, three |-> th + 1]

\* ------------------------------------------------- one-generator fast path
\* PowIter that updates x and forgets the push
PowIter_NoPush(g, vv, xx) ==
    LET ovf == Overflows(xx, g)
        nx == WrappingMul(xx, g)
    IN  IF ovf /\ overflow_checks
        THEN [status |-> PanicOverflow, ovf |-> TRUE, v |-> vv, x |-> xx]
        ELSE [status |-> NoPanic, ovf |-> ovf, v |-> vv, x |-> nx]

\* one iteration of the power loop (lib.rs:117-120, lib.rs:197-200)
PowIter(g, vv, xx) ==
    LET ovf == Overflows(xx, g)
        nx == WrappingMul(xx, g)
    IN  IF ovf /\ overflow_checks
        THEN [status |-> PanicOverflow, ovf |-> TRUE, v |-> vv, x |-> xx]
        ELSE [status |-> NoPanic, ovf |-> ovf, v |-> Append(vv, nx), x |-> nx]

\* ------------------------------------------------------------ merge loop
\* MergeIter that advances only the cursor min_by_key found
MergeIter_FirstTieOnly(ps, vv, idx) ==
    LET num_primes == Len(ps)
    IN
    IF \E j \in 1..num_primes : idx[j] >= Len(vv)
    THEN [status |-> PanicIndex, ovf |-> FALSE, v |-> vv, indices |-> idx]
    ELSE
    LET ovf == \E j \in 1..num_primes : Overflows(ps[j], At(vv, idx[j]))
        key(j) == WrappingMul(ps[j], At(vv, idx[j]))
    IN  IF ovf /\ overflow_checks
        THEN [status |-> PanicOverflow, ovf |-> TRUE, v |-> vv, indices |-> idx]
        ELSE IF num_primes = 0
        THEN [status |-> PanicExpect, ovf |-> FALSE, v |-> vv, indices |-> idx]
        ELSE
        LET i == CHOOSE j \in 1..num_primes :
                    /\ \A l \in 1..num_primes : key(j) <= key(l)
                    /\ \A l \in 1..(j - 1) : key(l) > key(j)
            new == key(i)
        IN  [status |-> NoPanic, ovf |-> ovf, v |-> Append(vv, new),
             indices |-> [j \in 1..num_primes |->
                             IF j = i THEN idx[j] + 1 ELSE idx[j]]]

\* one iteration of the general merge loop (lib.rs:136-145, lib.rs:209-218)
MergeIter(ps, vv, idx) ==
    LET num_primes == Len(ps)
    IN
    IF \E j \in 1..num_primes : idx[j] >= Len(vv)
    THEN [status |-> PanicIndex, ovf |-> FALSE, v |-> vv, indices |-> idx]
    ELSE
    LET ovf == \E j \in 1..num_primes : Overflows(ps[j], At(vv, idx[j]))
        key(j) == WrappingMul(ps[j], At(vv, idx[j]))
    IN  IF ovf /\ overflow_checks
        THEN [status |-> PanicOverflow, ovf |-> TRUE, v |-> vv, indices |-> idx]
        ELSE IF num_primes = 0
        THEN [status |-> PanicExpect, ovf |-> FALSE, v |-> vv, indices |-> idx]
        ELSE
        LET i == CHOOSE j \in 1..num_primes :
                    /\ \A l \in 1..num_primes : key(j) <= key(l)
                    /\ \A l \in 1..(j - 1) : key(l) > key(j)
            new == key(i)
        IN  [status |-> NoPanic, ovf |-> ovf, v |-> Append(vv, new),
             indices |-> [j \in 1..num_primes |->
                             IF key(j) = new THEN idx[j] + 1 ELSE idx[j]]]

\* ----------------------------------------------------------------- sieve
IsPrime(p) == p >= 2 /\ \A d \in 2..(p - 1) : p % d # 0

RECURSIVE SieveFrom(_, _)
SieveFrom(p, kk) ==
    IF p > kk THEN <<>>
    ELSE IF IsPrime(p) THEN <<p>> \o SieveFrom(p + 1, kk)
    ELSE SieveFrom(p + 1, kk)

\* SievePrimes with take_while(|&p| p < k)
SievePrimes_Exclusive(kk) == SieveFrom(2, kk - 1)

\* sieve.primes_from(2).take_while(|&p| p <= k)  (lib.rs:124-129)
SievePrimes(kk) == SieveFrom(2, kk)

\* --------------------------------------------------------------- inputs
RECURSIVE SeqsUpTo(_, _)
SeqsUpTo(S, len) ==
    IF len = 0 THEN {<<>>}
    ELSE LET shorter == SeqsUpTo(S, len - 1)
         IN  shorter \cup {Append(s, e) : s \in {t \in shorter : Len(t) = len - 1}, e \in S}

Min(a, b) == IF a < b THEN a ELSE b

Init ==
    /\ bits \in MinBits..MaxBits
    /\ overflow_checks \in BOOLEAN
    /\ n \in 0..MaxN
    /\ func \in {"pratt", "smooth", "with_primes"}
    /\ k \in IF func = "smooth" THEN 0..MaxK ELSE {0}
    /\ primes \in IF func = "with_primes"
                  THEN SeqsUpTo(0..Min(MaxGen, MaxValue), MaxPrimes)
                  ELSE {<<>>}
    /\ pc = "call"
    /\ v = <<>>
    /\ two = 0
    /\ three = 0
    /\ x = 0
    /\ indices = <<>>
    /\ iter = 0
    /\ panic = NoPanic
    /\ overflowed = FALSE

\* -------------------------------------------------------------- actions
Locals == <<v, two, three, x, indices, iter>>
Args == <<func, k, n, bits, overflow_checks>>

\* return Vec::new()  (lib.rs:34-36, lib.rs:105-107, lib.rs:183-185)
ReturnEmpty ==
    /\ pc' = "returned"
    /\ v' = <<>>
    /\ UNCHANGED <<two, three, x, indices, iter, panic, overflowed, primes>>

\* ReturnOne returning an empty vector
ReturnOne_Empty ==
    /\ pc' = "returned"
    /\ v' = <<>>
    /\ UNCHANGED <<two, three, x, indices, iter, panic, overflowed, primes>>

\* return vec![1]  (lib.rs:109-111, lib.rs:189-191)
ReturnOne ==
    /\ pc' = "returned"
    /\ v' = <<1>>
    /\ UNCHANGED <<two, three, x, indices, iter, panic, overflowed, primes>>

\* lib.rs:34-42
pratt_entry ==
    /\ func = "pratt" /\ pc = "call"
    /\ IF n = 0 THEN ReturnEmpty
       ELSE /\ v' = <<1>>
            /\ two' = 0
            /\ three' = 0
            /\ iter' = 1
            /\ pc' = "pratt_loop"
            /\ UNCHANGED <<x, indices, panic, overflowed, primes>>
    /\ UNCHANGED Args

\* lib.rs:44-62
pratt_iter ==
    /\ func = "pratt" /\ pc = "pratt_loop" /\ iter < n
    /\ LET r == PrattIter(v, two, three)
       IN  /\ v' = r.v
           /\ two' = r.two
           /\ three' = r.three
           /\ overflowed' = (overflowed \/ r.ovf)
           /\ panic' = r.status
           /\ IF r.status = NoPanic
              THEN pc' = "pratt_loop" /\ iter' = iter + 1
              ELSE pc' = "panicked" /\ iter' = iter
    /\ UNCHANGED <<x, indices, primes>>
    /\ UNCHANGED Args

\* lib.rs:63
pratt_return ==
    /\ func = "pratt" /\ pc = "pratt_loop" /\ iter >= n
    /\ pc' = "returned"
    /\ UNCHANGED <<Locals, panic, overflowed, primes>>
    /\ UNCHANGED Args

\* lib.rs:105-133
smooth_entry ==
    /\ func = "smooth" /\ pc = "call"
    /\ IF n = 0 THEN ReturnEmpty
       ELSE IF k < 2 THEN ReturnOne
       ELSE IF k = 2
       THEN /\ v' = <<1>>
            /\ x' = 1
            /\ iter' = 1
            /\ pc' = "pow_loop"
            /\ UNCHANGED <<two, three, indices, panic, overflowed, primes>>
       ELSE /\ primes' = SievePrimes(k)
            /\ indices' = [j \in 1..Len(SievePrimes(k)) |-> 0]
            /\ v' = <<1>>
            /\ iter' = 1
            /\ pc' = "merge_loop"
            /\ UNCHANGED <<two, three, x, panic, overflowed>>
    /\ UNCHANGED Args

\* the body shared by the two power loops
PowStep(g) ==
    /\ LET r == PowIter(g, v, x)
       IN  /\ v' = r.v
           /\ x' = r.x
           /\ overflowed' = (overflowed \/ r.ovf)
           /\ panic' = r.status
           /\ IF r.status = NoPanic
              THEN pc' = "pow_loop" /\ iter' = iter + 1
              ELSE pc' = "panicked" /\ iter' = iter
    /\ UNCHANGED <<two, three, indices, primes>>
    /\ UNCHANGED Args

\* the body shared by the two merge loops
MergeStep ==
    /\ LET r == MergeIter(primes, v, indices)
       IN  /\ v' = r.v
           /\ indices' = r.indices
           /\ overflowed' = (overflowed \/ r.ovf)
           /\ panic' = r.status
           /\ IF r.status = NoPanic
              THEN pc' = "merge_loop" /\ iter' = iter + 1
              ELSE pc' = "panicked" /\ iter' = iter
    /\ UNCHANGED <<two, three, x, primes>>
    /\ UNCHANGED Args

\* lib.rs:117-120
smooth_pow_iter ==
    /\ func = "smooth" /\ pc = "pow_loop" /\ iter < n
    /\ PowStep(2)

\* lib.rs:135-146
smooth_merge_iter ==
    /\ func = "smooth" /\ pc = "merge_loop" /\ iter < n
    /\ MergeStep

\* lib.rs:121, lib.rs:147
smooth_return ==
    /\ func = "smooth" /\ pc \in {"pow_loop", "merge_loop"} /\ iter >= n
    /\ pc' = "returned"
    /\ UNCHANGED <<Locals, panic, overflowed, primes>>
    /\ UNCHANGED Args

\* lib.rs:183-206
with_primes_entry ==
    /\ func = "with_primes" /\ pc = "call"
    /\ IF n = 0 THEN ReturnEmpty
       ELSE IF Len(primes) = 0 THEN ReturnOne
       ELSE IF Len(primes) = 1
       THEN /\ v' = <<1>>
            /\ x' = 1
            /\ iter' = 1
            /\ pc' = "pow_loop"
            /\ UNCHANGED <<two, three, indices, panic, overflowed, primes>>
       ELSE /\ indices' = [j \in 1..Len(primes) |-> 0]
            /\ v' = <<1>>
            /\ iter' = 1
            /\ pc' = "merge_loop"
            /\ UNCHANGED <<two, three, x, panic, overflowed, primes>>
    /\ UNCHANGED Args

\* lib.rs:197-200
with_primes_pow_iter ==
    /\ func = "with_primes" /\ pc = "pow_loop" /\ iter < n
    /\ PowStep(primes[1])

\* lib.rs:208-219
with_primes_merge_iter ==
    /\ func = "with_primes" /\ pc = "merge_loop" /\ iter < n
    /\ MergeStep

\* lib.rs:201, lib.rs:220
with_primes_return ==
    /\ func = "with_primes" /\ pc \in {"pow_loop", "merge_loop"} /\ iter >= n
    /\ pc' = "returned"
    /\ UNCHANGED <<Locals, panic, overflowed, primes>>
    /\ UNCHANGED Args

Next ==
    \/ pratt_entry
    \/ pratt_iter
    \/ pratt_return
    \/ smooth_entry
    \/ smooth_pow_iter
    \/ smooth_merge_iter
    \/ smooth_return
    \/ with_primes_entry
    \/ with_primes_pow_iter
    \/ with_primes_merge_iter
    \/ with_primes_return

Spec == Init /\ [][Next]_vars

\* ------------------------------------------------- whole calls, as functions
Returned(vv) == [status |-> "returned", panic |-> NoPanic, v |-> vv]
Panicked(msg) == [status |-> "panicked", panic |-> msg, v |-> <<>>]

RECURSIVE RunPratt(_, _, _, _, _)
\* the loop of pratt from iteration `it` on (lib.rs:44-63)
RunPratt(vv, tw, th, it, nn) ==
    IF it >= nn THEN Returned(vv)
    ELSE LET r == PrattIter(vv, tw, th)
         IN  IF r.status # NoPanic THEN Panicked(r.status)
             ELSE RunPratt(r.v, r.two, r.three, it + 1, nn)

RECURSIVE RunPow(_, _, _, _, _)
\* a power loop from iteration `it` on (lib.rs:117-121, lib.rs:197-201)
RunPow(g, vv, xx, it, nn) ==
    IF it >= nn THEN Returned(vv)
    ELSE LET r == PowIter(g, vv, xx)
         IN  IF r.status # NoPanic THEN Panicked(r.status)
             ELSE RunPow(g, r.v, r.x, it + 1, nn)

RECURSIVE RunMerge(_, _, _, _, _)
\* a merge loop from iteration `it` on (lib.rs:135-147, lib.rs:208-220)
RunMerge(ps, vv, idx, it, nn) ==
    IF it >= nn THEN Returned(vv)
    ELSE LET r == MergeIter(ps, vv, idx)
         IN  IF r.status # NoPanic THEN Panicked(r.status)
             ELSE RunMerge(ps, r.v, r.indices, it + 1, nn)

\* pratt(n), lib.rs:33-64
pratt(nn) ==
    IF nn = 0 THEN Returned(<<>>)
    ELSE RunPratt(<<1>>, 0, 0, 1, nn)

\* smooth(k, n), lib.rs:104-148
smooth(kk, nn) ==
    IF nn = 0 THEN Returned(<<>>)
    ELSE IF kk < 2 THEN Returned(<<1>>)
    ELSE IF kk = 2 THEN RunPow(2, <<1>>, 1, 1, nn)
    ELSE RunMerge(SievePrimes(kk), <<1>>, [j \in 1..Len(SievePrimes(kk)) |-> 0], 1, nn)

\* with_primes(primes, n), lib.rs:182-221
with_primes(ps, nn) ==
    IF nn = 0 THEN Returned(<<>>)
    ELSE IF Len(ps) = 0 THEN Returned(<<1>>)
    ELSE IF Len(ps) = 1 THEN RunPow(ps[1], <<1>>, 1, 1, nn)
    ELSE RunMerge(ps, <<1>>, [j \in 1..Len(ps) |-> 0], 1, nn)

\* ------------------------------------------------------------ vocabulary
Final == pc \in {"returned", "panicked"}

\* what the call in progress has produced
StateOutcome == [status |-> pc, panic |-> panic, v |-> IF pc = "returned" THEN v ELSE <<>>]

\* the call in progress, rerun with another count
CallWith(nn) ==
    IF func = "pratt" THEN pratt(nn)
    ELSE IF func = "smooth" THEN smooth(k, nn)
    ELSE with_primes(primes, nn)

\* the generators of the call in progress
Generators ==
    IF func = "pratt" THEN {2, 3}
    ELSE IF func = "smooth" THEN {p \in 2..k : IsPrime(p)}
    ELSE Range(primes)

StrictlyIncreasing(s) == \A j \in 1..(Len(s) - 1) : s[j] < s[j + 1]

\* every prime factor of y is <= kk
IsSmooth(y, kk) == \A p \in 2..y : (IsPrime(p) /\ y % p = 0) => p <= kk

RECURSIVE IsProduct(_, _)
\* y is a product of non-negative powers of elements of G
IsProduct(y, G) ==
    \/ y = 1
    \/ \E g \in G : g >= 2 /\ y % g = 0 /\ IsProduct(y \div g, G)

DistinctPrimes(ps) ==
    /\ \A j \in 1..Len(ps) : IsPrime(ps[j])
    /\ \A j, l \in 1..Len(ps) : j # l => ps[j] # ps[l]

TypeOK ==
    /\ pc \in {"call", "pratt_loop", "pow_loop", "merge_loop", "returned", "panicked"}
    /\ \A j \in 1..Len(v) : v[j] \in 0..MaxValue
    /\ (pc = "panicked") = (panic # NoPanic)
    /\ overflow_checks => (overflowed = (pc = "panicked"))

\* the stepwise execution and the whole-call functions describe the same call
StepsAgreeWithCall == Final => StateOutcome = CallWith(n)

\* ================================================================ claims
GensAtLeastTwo == \A g \in Generators : g >= 2

C2_SameOutcome ==
    (Final /\ (\/ func = "pratt"
               \/ (func = "smooth" /\ k = 3)
               \/ (func = "with_primes" /\ primes = <<2, 3>>))) =>
        /\ StateOutcome = pratt(n)
        /\ StateOutcome = with_primes(<<2, 3>>, n)
        /\ StateOutcome = smooth(3, n)

C2_Witness ==
    /\ func = "pratt" /\ pc = "panicked" /\ panic = PanicOverflow
    /\ with_primes(<<2, 3>>, n).status = "panicked"
    /\ with_primes(<<2, 3>>, n - 1).status = "returned"

\* C3 (as stated): every call that returns without overflow (pratt: every call
\* that returns) returns exactly n elements.
C3_Original ==
    (pc = "returned" /\ (func = "pratt" \/ ~overflowed)) => Len(v) = n

\* C3 (amended): a call that returns without overflow returns n elements,
\* except that smooth with k < 2 and with_primes with an empty list return one
\* element for every n >= 1.
C3_Length ==
    (pc = "returned" /\ (func = "pratt" \/ ~overflowed)) =>
        Len(v) = IF n >= 1 /\ (\/ (func = "smooth" /\ k < 2)
                               \/ (func = "with_primes" /\ Len(primes) = 0))
                 THEN 1 ELSE n

C3_Witness ==
    /\ func = "smooth" /\ k < 2 /\ n >= 2 /\ pc = "returned" /\ Len(v) = 1

\* C4, on generator lists of integers >= 2 (duplicates, non-primes and
\* non-coprime elements included): every sequence returned with n >= 1 starts
\* at 1 and is strictly increasing.
C4_StartsAtOneIncreasing ==
    (pc = "returned" /\ n >= 1 /\ GensAtLeastTwo) =>
        /\ v[1] = 1
        /\ StrictlyIncreasing(v)

\* C5: once a product has exceeded the word, the call has aborted with the
\* overflow failure: it pushes nothing more, runs no further iteration and
\* returns nothing.
C5_AbortsOnOverflow ==
    overflowed => (pc = "panicked" /\ panic = PanicOverflow)

\* the counts up to which every call over generators >= 2 must have failed:
\* its values are distinct and fit the word
CountLimit == MaxValue + 2

\* C6, on configurations with at least one generator, all >= 2: there is a
\* maximal n on which the call succeeds, every smaller count succeeds and
\* every larger one fails.
C6_Boundary ==
    (Final /\ Generators # {} /\ GensAtLeastTwo) =>
        \E m \in 0..CountLimit :
            /\ \A nn \in 0..m : CallWith(nn).status = "returned"
            /\ \A nn \in (m + 1)..(CountLimit + 1) : CallWith(nn).status = "panicked"

\* C7: with n = 0 every call returns the empty sequence, without running the
\* sieve; with n >= 1, smooth with k < 2 and with_primes with an empty list
\* return [1]; none of these calls fails or enters a loop.
C7_Degenerate ==
    pc # "call" =>
        /\ n = 0 => (pc = "returned" /\ v = <<>> /\ (func = "smooth" => primes = <<>>))
        /\ (n >= 1 /\ (\/ (func = "smooth" /\ k < 2)
                       \/ (func = "with_primes" /\ Len(primes) = 0))) =>
              (pc = "returned" /\ v = <<1>>)

C7_Witness ==
    /\ func = "with_primes" /\ Len(primes) = 0 /\ n >= 2
    /\ pc = "returned" /\ v = <<1>>

\* C8, on generators >= 2: after every completed iteration each cursor is a
\* valid index into v, its candidate is greater than the last element of v,
\* and the candidate of the index before it is not.
C8_CursorInvariant ==
    /\ (pc = "merge_loop" /\ iter >= 2 /\ GensAtLeastTwo) =>
          \A j \in 1..Len(primes) :
              /\ indices[j] < Len(v)
              /\ primes[j] * At(v, indices[j]) > Last(v)
              /\ indices[j] > 0 => primes[j] * At(v, indices[j] - 1) <= Last(v)
    /\ (pc = "pratt_loop" /\ iter >= 2) =>
          /\ two < Len(v) /\ three < Len(v)
          /\ 2 * At(v, two) > Last(v)
          /\ 3 * At(v, three) > Last(v)
          /\ two > 0 => 2 * At(v, two - 1) <= Last(v)
          /\ three > 0 => 3 * At(v, three - 1) <= Last(v)

\* the least element of a non-empty set of numbers
Least(S) == CHOOSE m \in S : \A y \in S : m <= y

\* C9: a completed iteration appends exactly one value, the least of the
\* candidates computed from the cursors as they were, advances by one exactly
\* the cursors whose candidate is that value, and changes nothing else.
C9_FrameEffect ==
    [][ /\ (pc = "merge_loop" /\ pc' = "merge_loop") =>
              LET cand == [j \in 1..Len(primes) |-> WrappingMul(primes[j], At(v, indices[j]))]
                  least == Least(Range(cand))
              IN  /\ v' = Append(v, least)
                  /\ DOMAIN indices' = DOMAIN indices
                  /\ \A j \in 1..Len(primes) :
                        indices'[j] = IF cand[j] = least THEN indices[j] + 1 ELSE indices[j]
                  /\ primes' = primes
        /\ (pc = "pratt_loop" /\ pc' = "pratt_loop") =>
              LET c2 == WrappingMul(2, At(v, two))
                  c3 == WrappingMul(3, At(v, three))
                  least == Least({c2, c3})
              IN  /\ v' = Append(v, least)
                  /\ two' = IF c2 = least THEN two + 1 ELSE two
                  /\ three' = IF c3 = least THEN three + 1 ELSE three
      ]_vars

\* a merge iteration has just emitted a value reached by two cursors
C9_Witness ==
    /\ func = "with_primes" /\ pc = "merge_loop" /\ Len(v) >= 2
    /\ \E j, l \in 1..Len(primes) :
          /\ j # l /\ primes[j] # primes[l]
          /\ indices[j] > 0 /\ indices[l] > 0
          /\ primes[j] * At(v, indices[j] - 1) = Last(v)
          /\ primes[l] * At(v, indices[l] - 1) = Last(v)

\* C10, on generators >= 2: a call fails with overflow only if the n-th
\* smallest product of its generators does not fit the word.
C10_FailsOnlyPastRange ==
    (pc = "panicked" /\ GensAtLeastTwo) =>
        Cardinality({y \in 1..MaxValue : IsProduct(y, Generators)}) < n
====
